---- MODULE Spec2Model ----
(***************************************************************************)
(* CognicityReportsPowertrack: the Gnip PowerTrack stream connection       *)
(* manager (connectStream) and the tweet classification / action pipeline  *)
(* (filter, dbQuery, ifNewUser, sendReplyTweet and the insert functions).  *)
(*                                                                         *)
(* Node.js runs every callback to completion, so each action below is one  *)
(* callback (or one call of connectStream) with everything it calls        *)
(* synchronously.  The Gnip stream, the pg pool and the twitter client are *)
(* the environment: they decide when a callback runs and with which        *)
(* arguments.                                                              *)
(***************************************************************************)
EXTENDS Naturals, Sequences, FiniteSets

(***************************************************************************)
(* Bounds of the model.                                                    *)
(***************************************************************************)
\* stream.start() is called at most MaxStarts times in a behaviour
MaxStarts == 4
\* at most MaxEvents 'tweet' signals are delivered in a behaviour
MaxEvents == 2

(***************************************************************************)
(* Program constants.                                                      *)
(***************************************************************************)
\* var streamReconnectTimeout = 1;  and  streamReconnectTimeout = 1 on 'ready'
FloorTimeout == 1
\* setTimeout( reconnectSocket, streamReconnectTimeout*1000 )
MsPerUnit == 1000
\* streamReconnectTimeout *= 2
BackoffFactor == 2
\* config.gnip.maxReconnectTimeout = 1000 * 60 * 5
ShippedMaxReconnectTimeout == 300000

VARIABLES
    \* ---- connectStream closure and the Gnip stream ----
    pc,                      \* "constructed" | "updatingRules" | "running" | "crashed"
    transports,              \* every request stream.start() created, in order
    req,                     \* stream._req: index into transports, 0 = undefined
    idleArmed,               \* transports whose socket timeout listener is armed
    streamReconnectTimeout,  \* var streamReconnectTimeout
    reconnectTimeoutHandle,  \* var reconnectTimeoutHandle: a timer id, 0 = undefined
    timers,                  \* pending setTimeout timers: records [id, delay, n]
    \* ---- history of the connection manager ----
    attempts,                \* reconnectSocket calls since the last 'ready'
    bursts,                  \* disruptions that arrived with no timer pending
    reconnects,              \* reconnectSocket calls
    rulesUpdates,            \* rules.update calls
    rulesResult,             \* what the rules.update callback was told: "none" | "ok" | "err"
    pendingDisruption,       \* a disruption was signalled and no start followed yet
    \* ---- the tweet pipeline ----
    send_enabled,            \* config.twitter.send_enabled === true
    maxReconnectTimeout,     \* config.gnip.maxReconnectTimeout, in milliseconds
    db,                      \* the database tables the queries read and write
    events,                  \* one record per 'tweet' signal handled, in arrival order
    ops                      \* asynchronous calls whose callback has not run yet

connVars == <<pc, transports, req, idleArmed, streamReconnectTimeout,
              reconnectTimeoutHandle, timers>>
connHist == <<attempts, bursts, reconnects, rulesUpdates, rulesResult, pendingDisruption>>

\* the configuration, and what the pipeline reads and writes
pipeVars == <<send_enabled, maxReconnectTimeout, db, events, ops>>

vars == <<connVars, connHist, pipeVars>>

(***************************************************************************)
(* The Gnip stream: transports (HTTP requests) and the signals they emit.  *)
(***************************************************************************)
\* a transport holds the connection while it is connecting or streaming
Live(t) == t.st \in {"connecting", "ready"}

LiveTransports == {i \in 1..Len(transports) : Live(transports[i])}

\* stream.start(): a new request, which becomes stream._req
StreamStart(ts) == Append(ts, [st |-> "connecting", resp |-> FALSE, emitted |-> {}])

\* variant: the stale request is left open
ReqDestroy_Skipped(ts, r) == ts

\* stream._req.destroy()
ReqDestroy(ts, r) == [ts EXCEPT ![r].st = "destroyed"]

\* a transport that signalled 'error' or 'end' no longer streams
Broken(ts, i, sig) ==
    [ts EXCEPT ![i].emitted = @ \cup {sig},
               ![i].st = IF Live(ts[i]) THEN "broken" ELSE @]

(***************************************************************************)
(* Timers.                                                                 *)
(***************************************************************************)
\* clearTimeout(h): cancels the timer if it is still pending
ClearTimeout(tms, h) == {tm \in tms : tm.id # h}

\* setTimeout returns a handle distinct from every pending one and from the
\* one the closure still holds
FreshTimer(tms, h) ==
    CHOOSE i \in 1..(Cardinality(tms) + 2) :
        /\ i # h
        /\ i \notin {tm.id : tm \in tms}
        /\ \A j \in 1..(i - 1) : j = h \/ j \in {tm.id : tm \in tms}

(***************************************************************************)
(* Tweets.  A tag is a string, written as its sequence of characters;     *)
(* the empty sequence is a matching rule without a tag.                    *)
(***************************************************************************)
Authors == {"u1"}

TagGeo == <<"g", "e", "o">>
TagAddressed == <<"a", "d", "d", "r", "e", "s", "s", "e", "d">>
TagLocation == <<"l", "o", "c", "a", "t", "i", "o", "n">>
\* the tag of config.gnip.rules that carries the bounding boxes
TagBoundingbox == <<"b", "o", "u", "n", "d", "i", "n", "g", "b", "o", "x">>
NoTag == << >>

TagUniverse == {TagGeo, TagAddressed, TagLocation, TagBoundingbox, NoTag}

\* tweetActivity: actor.preferredUsername, geo.coordinates present or not,
\* and the tags of gnip.matching_rules
Tweets == [user : Authors, hasGeo : BOOLEAN, tags : SUBSET TagUniverse]

\* tag.indexOf(prefix) === 0
StartsWith(tag, prefix) ==
    /\ Len(tag) >= Len(prefix)
    /\ SubSeq(tag, 1, Len(prefix)) = prefix

\* if (rule.tag) { if (rule.tag.indexOf(prefix)===0) flag = true; }
TagMatch(tags, prefix) == \E tag \in tags : tag # NoTag /\ StartsWith(tag, prefix)

\* the four facts filter derives (tweetCategorizations)
Categorize(tw) ==
    [hasGeo |-> tw.hasGeo,
     geoInBoundingBox |-> TagMatch(tw.tags, TagGeo),
     addressed |-> TagMatch(tw.tags, TagAddressed),
     locationMatch |-> TagMatch(tw.tags, TagLocation)]

\* variant: the first test reads hasGeo where it should read the geo tag
filterBranch_GeoForBox(c) ==
    IF c.hasGeo /\ c.addressed THEN "Confirmed"
    ELSE IF ~c.geoInBoundingBox /\ ~c.hasGeo /\ c.addressed /\ c.locationMatch
         THEN "AskForGeo"
    ELSE IF c.geoInBoundingBox /\ ~c.addressed THEN "Unconfirmed"
    ELSE IF ~c.geoInBoundingBox /\ ~c.hasGeo /\ ~c.addressed /\ c.locationMatch
         THEN "Invite"
    ELSE "Unmatched"

\* the if / else-if chain of filter
filterBranch(c) ==
    IF c.geoInBoundingBox /\ c.addressed THEN "Confirmed"
    ELSE IF ~c.geoInBoundingBox /\ ~c.hasGeo /\ c.addressed /\ c.locationMatch
         THEN "AskForGeo"
    ELSE IF c.geoInBoundingBox /\ ~c.addressed THEN "Unconfirmed"
    ELSE IF ~c.geoInBoundingBox /\ ~c.hasGeo /\ ~c.addressed /\ c.locationMatch
         THEN "Invite"
    ELSE "Unmatched"

(***************************************************************************)
(* Asynchronous calls.  Every dbQuery is named by the statement it runs;  *)
(* the statement also fixes the success callback.                          *)
(***************************************************************************)
QConfirmed == "insertConfirmed"          \* INSERT INTO table_tweets
QUpsert == "upsert_tweet_users"          \* SELECT upsert_tweet_users(md5($1))
QInvitee == "insertInvitee"              \* INSERT INTO table_invitees
QUnConfirmed == "insertUnConfirmed"      \* INSERT INTO table_unconfirmed
QNonSpatial == "insertNonSpatial"        \* INSERT INTO table_nonspatial_tweet_reports
QNonSpatialUser == "insertNonSpatialUser" \* INSERT INTO table_nonspatial_users
QIfNewNonSpatial == "ifNewUser_nonSpatial" \* SELECT ... table_all_users, from insertNonSpatial
QIfNewReply == "ifNewUser_reply"         \* SELECT ... table_all_users, from sendReplyTweet
TUpdateStatus == "updateStatus"          \* twit.updateStatus

Queries == {QConfirmed, QUpsert, QInvitee, QUnConfirmed, QNonSpatial,
            QNonSpatialUser, QIfNewNonSpatial, QIfNewReply}
Kinds == Queries \cup {TUpdateStatus}

\* the record kept for one handled tweet
NewEvent(tw) ==
    [user |-> tw.user,
     cat |-> Categorize(tw),
     verdict |-> "none",        \* the branch filter took
     caught |-> FALSE,          \* the handler's catch block logged an error
     issued |-> [k \in Kinds |-> 0],        \* calls of dbQuery / updateStatus
     outcome |-> [k \in Kinds |-> "none"],  \* what the callback of the call saw
     dispatched |-> 0,          \* replies confirmed sent (or treated so in test mode)
     callbacks |-> 0,           \* calls of the callback given to sendReplyTweet
     tweetFailed |-> 0,         \* 'Tweeting failed' error logs
     seq |-> 0,                 \* the 'tweet' signal that brought it
     via |-> 0,                 \* the transport that delivered it
     knownAtArrival |-> FALSE,  \* the author was in all_users on arrival
     released |-> [k \in Kinds |-> 0],     \* calls of done() per dbQuery
     succeeded |-> [k \in Kinds |-> 0],    \* runs of the success callback
     early |-> 0,               \* success callbacks begun before done()
     cbErrors |-> 0]            \* 'Error in success callback' error logs

\* A handler works on p = [ops, events, db, threw]; threw is an exception
\* on its way to the nearest catch.
Throw(p) == [p EXCEPT !.threw = TRUE]

\* dbQuery(config, success) up to the call of pg.connect
dbQuery(p, e, k, cb) ==
    [p EXCEPT !.ops = @ \cup {[ev |-> e, kind |-> k, stage |-> "connect", cb |-> cb]},
              !.events[e].issued[k] = @ + 1]

\* ifNewUser(user, success): the SELECT on table_all_users
ifNewUser(p, e, k, cb) == dbQuery(p, e, k, cb)

\* sendReplyTweet(user, message, callback)
sendReplyTweet(p, e, cb) == ifNewUser(p, e, QIfNewReply, cb)

\* insertConfirmed: the values array reads tweetActivity.geo.coordinates[0]
\* before dbQuery is called
insertConfirmed(p, e) ==
    IF p.events[e].cat.hasGeo THEN dbQuery(p, e, QConfirmed, "none") ELSE Throw(p)

insertInvitee(p, e) == dbQuery(p, e, QInvitee, "none")

\* variant: the statement is built without reading geo.coordinates
insertUnConfirmed_NoCoordinates(p, e) == dbQuery(p, e, QUnConfirmed, "none")

\* insertUnConfirmed: reads tweetActivity.geo.coordinates[0] as well
insertUnConfirmed(p, e) ==
    IF p.events[e].cat.hasGeo THEN dbQuery(p, e, QUnConfirmed, "none") ELSE Throw(p)

\* variant: the nonspatial user row is inserted without asking ifNewUser
insertNonSpatial_NoCheck(p, e) ==
    dbQuery(dbQuery(p, e, QNonSpatial, "none"), e, QNonSpatialUser, "none")

\* insertNonSpatial: the report insert, then ifNewUser around the user insert
insertNonSpatial(p, e) ==
    ifNewUser(dbQuery(p, e, QNonSpatial, "none"), e, QIfNewNonSpatial, "none")

\* variant: a tweet that matches no branch is invited like an Invite tweet
filter_InvitesUnmatched(p, e) ==
    LET v == filterBranch(p.events[e].cat)
        q == [p EXCEPT !.events[e].verdict = v]
    IN  CASE v = "Confirmed" -> insertConfirmed(q, e)
          [] v = "AskForGeo" -> sendReplyTweet(insertNonSpatial(q, e), e, "none")
          [] v = "Unconfirmed" ->
                LET r == insertUnConfirmed(q, e)
                IN  IF r.threw THEN r ELSE sendReplyTweet(r, e, "insertInvitee")
          [] v = "Invite" -> sendReplyTweet(q, e, "insertInvitee")
          [] OTHER -> sendReplyTweet(q, e, "insertInvitee")

\* filter(tweetActivity)
filter(p, e) ==
    LET v == filterBranch(p.events[e].cat)
        q == [p EXCEPT !.events[e].verdict = v]
    IN  CASE v = "Confirmed" -> insertConfirmed(q, e)
          [] v = "AskForGeo" -> sendReplyTweet(insertNonSpatial(q, e), e, "none")
          [] v = "Unconfirmed" ->
                LET r == insertUnConfirmed(q, e)
                IN  IF r.threw THEN r ELSE sendReplyTweet(r, e, "insertInvitee")
          [] v = "Invite" -> sendReplyTweet(q, e, "insertInvitee")
          [] OTHER -> q

\* if (callback) callback();  the callback filter gives is insertInvitee
runCallback(p, e, cb) ==
    IF cb = "insertInvitee"
    THEN insertInvitee([p EXCEPT !.events[e].callbacks = @ + 1], e)
    ELSE p

\* variant: the callback runs right after twit.updateStatus is called
replyIfNew_CallbackAtOnce(p, e, cb) ==
    IF send_enabled
    THEN runCallback(
            [p EXCEPT !.ops = @ \cup {[ev |-> e, kind |-> TUpdateStatus,
                                       stage |-> "send", cb |-> "none"]},
                      !.events[e].issued[TUpdateStatus] = @ + 1],
            e, cb)
    ELSE runCallback([p EXCEPT !.events[e].dispatched = @ + 1], e, cb)

\* variant: in test mode the reply is logged and the callback is not called
replyIfNew_TestModeNoCallback(p, e, cb) ==
    IF send_enabled
    THEN [p EXCEPT !.ops = @ \cup {[ev |-> e, kind |-> TUpdateStatus,
                                    stage |-> "send", cb |-> cb]},
                   !.events[e].issued[TUpdateStatus] = @ + 1]
    ELSE [p EXCEPT !.events[e].dispatched = @ + 1]

\* the function sendReplyTweet hands to ifNewUser
replyIfNew(p, e, cb) ==
    IF send_enabled /\ p.twitThrows
    THEN Throw([p EXCEPT !.events[e].issued[TUpdateStatus] = @ + 1,
                         !.events[e].outcome[TUpdateStatus] = "threw"])
    ELSE IF send_enabled
    THEN [p EXCEPT !.ops = @ \cup {[ev |-> e, kind |-> TUpdateStatus,
                                    stage |-> "send", cb |-> cb]},
                   !.events[e].issued[TUpdateStatus] = @ + 1]
    ELSE runCallback([p EXCEPT !.events[e].dispatched = @ + 1], e, cb)

\* variant: the callback of ifNewUser runs when the SELECT returned a row
querySuccess_KnownIsNew(p, op, rows) ==
    CASE op.kind = QConfirmed -> dbQuery(p, op.ev, QUpsert, "none")
      [] op.kind = QIfNewNonSpatial ->
            IF rows # 0 THEN dbQuery(p, op.ev, QNonSpatialUser, "none") ELSE p
      [] op.kind = QIfNewReply ->
            IF rows # 0 THEN replyIfNew(p, op.ev, op.cb) ELSE p
      [] OTHER -> p

\* variant: the callback of ifNewUser runs whatever the SELECT returned
querySuccess_IgnoresRows(p, op, rows) ==
    CASE op.kind = QConfirmed -> dbQuery(p, op.ev, QUpsert, "none")
      [] op.kind = QIfNewNonSpatial -> dbQuery(p, op.ev, QNonSpatialUser, "none")
      [] op.kind = QIfNewReply -> replyIfNew(p, op.ev, op.cb)
      [] OTHER -> p

\* the success callback dbQuery runs for the statement of op
querySuccess(p, op, rows) ==
    CASE op.kind = QConfirmed -> dbQuery(p, op.ev, QUpsert, "none")
      [] op.kind = QIfNewNonSpatial ->
            IF rows = 0 THEN dbQuery(p, op.ev, QNonSpatialUser, "none") ELSE p
      [] op.kind = QIfNewReply ->
            IF rows = 0 THEN replyIfNew(p, op.ev, op.cb) ELSE p
      [] OTHER -> p

(***************************************************************************)
(* The database.  all_users is the table ifNewUser reads; the schema, not  *)
(* this program, decides whether a row written to a user table also shows  *)
(* up in all_users (reg).                                                  *)
(***************************************************************************)
DbRows(d, k, user) ==
    IF k \in {QIfNewNonSpatial, QIfNewReply} /\ user \in d.all_users THEN 1 ELSE 0

DbExec(d, k, user, reg) ==
    LET known == IF reg THEN d.all_users \cup {user} ELSE d.all_users
    IN  CASE k = QInvitee ->
               [d EXCEPT !.invitees[user] = @ + 1, !.all_users = known]
          [] k = QNonSpatialUser ->
               [d EXCEPT !.nonspatial_users[user] = @ + 1, !.all_users = known]
          [] k = QUpsert -> [d EXCEPT !.all_users = known]
          [] OTHER -> d

\* history: what the success callback of statement k was given
QueryOutcome(k, rows) ==
    IF k \in {QIfNewNonSpatial, QIfNewReply}
    THEN (IF rows = 0 THEN "new" ELSE "known")
    ELSE "ok"

\* the configurations of gnip.maxReconnectTimeout the program is started
\* with: the shipped one, and one that a single doubling of the floor reaches
ConfiguredMaxReconnectTimeouts ==
    {ShippedMaxReconnectTimeout, FloorTimeout * BackoffFactor * MsPerUnit}

WritesUser(k) == k \in {QInvitee, QNonSpatialUser, QUpsert}

InitPipeVars ==
    /\ send_enabled \in BOOLEAN
    /\ db \in [all_users : SUBSET Authors,
               invitees : {[u \in Authors |-> 0]},
               nonspatial_users : {[u \in Authors |-> 0]}]
    /\ events = << >>
    /\ ops = {}

Init ==
    /\ pc = "constructed"
    /\ transports = << >>
    /\ req = 0
    /\ idleArmed = {}
    /\ streamReconnectTimeout = FloorTimeout
    /\ reconnectTimeoutHandle = 0
    /\ timers = {}
    /\ attempts = 0
    /\ bursts = 0
    /\ reconnects = 0
    /\ rulesUpdates = 0
    /\ rulesResult = "none"
    /\ pendingDisruption = FALSE
    /\ maxReconnectTimeout \in ConfiguredMaxReconnectTimeouts
    /\ InitPipeVars

(***************************************************************************)
(* connectStream: build the stream, register the handlers, push the rules. *)
(***************************************************************************)
connectStream ==
    /\ pc = "constructed"
    /\ pc' = "updatingRules"
    /\ rulesUpdates' = rulesUpdates + 1
    /\ UNCHANGED <<transports, req, idleArmed, streamReconnectTimeout,
                   reconnectTimeoutHandle, timers>>
    /\ UNCHANGED <<attempts, bursts, reconnects, rulesResult, pendingDisruption>>
    /\ UNCHANGED pipeVars

\* variant: the error of rules.update is not thrown
rulesUpdateCallback_IgnoresErr(err) ==
    /\ pc = "updatingRules"
    /\ pc' = "running"
    /\ transports' = StreamStart(transports)
    /\ req' = Len(transports) + 1
    /\ rulesResult' = IF err THEN "err" ELSE "ok"
    /\ UNCHANGED <<idleArmed, streamReconnectTimeout, reconnectTimeoutHandle, timers>>
    /\ UNCHANGED <<attempts, bursts, reconnects, rulesUpdates, pendingDisruption>>
    /\ UNCHANGED pipeVars

\* rules.update(newRules, function(err) { if (err) throw err; stream.start(); })
rulesUpdateCallback(err) ==
    /\ pc = "updatingRules"
    /\ IF err
       THEN /\ pc' = "crashed"
            /\ UNCHANGED <<transports, req>>
       ELSE /\ pc' = "running"
            /\ transports' = StreamStart(transports)
            /\ req' = Len(transports) + 1
    /\ rulesResult' = IF err THEN "err" ELSE "ok"
    /\ UNCHANGED <<idleArmed, streamReconnectTimeout, reconnectTimeoutHandle, timers>>
    /\ UNCHANGED <<attempts, bursts, reconnects, rulesUpdates, pendingDisruption>>
    /\ UNCHANGED pipeVars

RulesUpdated == \E err \in BOOLEAN : rulesUpdateCallback(err)

(***************************************************************************)
(* reconnectStream: queue reconnectSocket, replacing a queued one.         *)
(***************************************************************************)
\* variant: the queued timer is not cleared
reconnectStream_NoClear ==
    LET h == FreshTimer(timers, reconnectTimeoutHandle)
    IN  /\ timers' = timers \cup {[id |-> h,
                                   delay |-> streamReconnectTimeout * MsPerUnit,
                                   n |-> attempts]}
        /\ reconnectTimeoutHandle' = h

\* variant: nothing is queued once the handle is set
reconnectStream_OnlyFirst ==
    IF reconnectTimeoutHandle # 0
    THEN UNCHANGED <<timers, reconnectTimeoutHandle>>
    ELSE /\ timers' = timers \cup {[id |-> 1,
                                    delay |-> streamReconnectTimeout * MsPerUnit,
                                    n |-> attempts]}
         /\ reconnectTimeoutHandle' = 1

reconnectStream ==
    LET cleared == IF reconnectTimeoutHandle # 0
                   THEN ClearTimeout(timers, reconnectTimeoutHandle)
                   ELSE timers
        h == FreshTimer(cleared, reconnectTimeoutHandle)
    IN  /\ timers' = cleared \cup {[id |-> h,
                                    delay |-> streamReconnectTimeout * MsPerUnit,
                                    n |-> attempts]}
        /\ reconnectTimeoutHandle' = h

\* history: the stream signalled a disruption (idle timeout, 'error' or 'end')
Disrupted ==
    /\ bursts' = IF timers = {} THEN bursts + 1 ELSE bursts
    /\ pendingDisruption' = TRUE

\* variant: the delay is not doubled
reconnectSocket_NoBackoff(tm) ==
    /\ pc = "running"
    /\ tm \in timers
    /\ Len(transports) < MaxStarts
    /\ timers' = timers \ {tm}
    /\ transports' = StreamStart(IF req # 0 THEN ReqDestroy(transports, req)
                                            ELSE transports)
    /\ req' = Len(transports) + 1
    /\ attempts' = attempts + 1
    /\ reconnects' = reconnects + 1
    /\ pendingDisruption' = FALSE
    /\ UNCHANGED <<pc, idleArmed, reconnectTimeoutHandle, streamReconnectTimeout>>
    /\ UNCHANGED <<bursts, rulesUpdates, rulesResult>>
    /\ UNCHANGED pipeVars

\* reconnectSocket, run by the timer tm
reconnectSocket(tm) ==
    /\ pc = "running"
    /\ tm \in timers
    /\ Len(transports) < MaxStarts
    /\ timers' = timers \ {tm}
    /\ transports' = StreamStart(IF req # 0 THEN ReqDestroy(transports, req)
                                            ELSE transports)
    /\ req' = Len(transports) + 1
    /\ streamReconnectTimeout' = streamReconnectTimeout * BackoffFactor
    /\ attempts' = attempts + 1
    /\ reconnects' = reconnects + 1
    /\ pendingDisruption' = FALSE
    /\ UNCHANGED <<pc, idleArmed, reconnectTimeoutHandle>>
    /\ UNCHANGED <<bursts, rulesUpdates, rulesResult>>
    /\ UNCHANGED pipeVars

TimerFires == \E tm \in timers : reconnectSocket(tm)

(***************************************************************************)
(* Stream event handlers.                                                  *)
(***************************************************************************)
\* variant: 'ready' leaves the delay as it is
onReady_NoReset(i) ==
    /\ pc = "running"
    /\ i \in 1..Len(transports)
    /\ transports[i].st = "connecting"
    /\ transports' = [transports EXCEPT ![i].st = "ready", ![i].resp = TRUE]
    /\ idleArmed' = idleArmed \cup {req}
    /\ attempts' = 0
    /\ UNCHANGED <<pc, req, reconnectTimeoutHandle, timers, streamReconnectTimeout>>
    /\ UNCHANGED <<bursts, reconnects, rulesUpdates, rulesResult, pendingDisruption>>
    /\ UNCHANGED pipeVars

\* stream.on('ready')
onReady(i) ==
    /\ pc = "running"
    /\ i \in 1..Len(transports)
    /\ transports[i].st = "connecting"
    /\ transports' = [transports EXCEPT ![i].st = "ready", ![i].resp = TRUE]
    /\ streamReconnectTimeout' = FloorTimeout
    /\ idleArmed' = idleArmed \cup {req}
    /\ attempts' = 0
    /\ UNCHANGED <<pc, req, reconnectTimeoutHandle, timers>>
    /\ UNCHANGED <<bursts, reconnects, rulesUpdates, rulesResult, pendingDisruption>>
    /\ UNCHANGED pipeVars

StreamReady == \E i \in 1..Len(transports) : onReady(i)

\* the socket timeout listener armed in 'ready' (a one-time listener)
onIdleTimeout(i) ==
    /\ pc = "running"
    /\ Len(transports) < MaxStarts
    /\ i \in idleArmed
    /\ transports[i].st = "ready"
    /\ idleArmed' = idleArmed \ {i}
    /\ reconnectStream
    /\ Disrupted
    /\ UNCHANGED <<pc, transports, req, streamReconnectTimeout>>
    /\ UNCHANGED <<attempts, reconnects, rulesUpdates, rulesResult>>
    /\ UNCHANGED pipeVars

IdleTimeout == \E i \in idleArmed : onIdleTimeout(i)

\* stream.on('error')
onError(i) ==
    /\ pc = "running"
    /\ Len(transports) < MaxStarts
    /\ i \in 1..Len(transports)
    /\ "error" \notin transports[i].emitted
    /\ transports' = Broken(transports, i, "error")
    /\ reconnectStream
    /\ Disrupted
    /\ UNCHANGED <<pc, req, idleArmed, streamReconnectTimeout>>
    /\ UNCHANGED <<attempts, reconnects, rulesUpdates, rulesResult>>
    /\ UNCHANGED pipeVars

StreamError == \E i \in 1..Len(transports) : onError(i)

\* stream.on('end'): the response of a transport ended
onEnd(i) ==
    /\ pc = "running"
    /\ Len(transports) < MaxStarts
    /\ i \in 1..Len(transports)
    /\ transports[i].resp
    /\ "end" \notin transports[i].emitted
    /\ transports' = Broken(transports, i, "end")
    /\ reconnectStream
    /\ Disrupted
    /\ UNCHANGED <<pc, req, idleArmed, streamReconnectTimeout>>
    /\ UNCHANGED <<attempts, reconnects, rulesUpdates, rulesResult>>
    /\ UNCHANGED pipeVars

StreamEnd == \E i \in 1..Len(transports) : onEnd(i)

NextConn ==
    \/ connectStream
    \/ RulesUpdated
    \/ StreamReady
    \/ IdleTimeout
    \/ StreamError
    \/ StreamEnd
    \/ TimerFires

\* The connection manager on its own: connectStream and the callbacks of
\* the rules update, the stream and the reconnect timer.
SpecConn == Init /\ [][NextConn]_vars

(***************************************************************************)
(* The tweet pipeline.                                                     *)
(***************************************************************************)
\* twitThrows: twit.updateStatus, the one call a success callback makes
\* into a library other than pg, throws before it returns
Pipe == [ops |-> ops, events |-> events, db |-> db, threw |-> FALSE,
         twitThrows |-> FALSE]

\* the listeners of 'tweet': stream.on('tweet', ...) is called once, by
\* connectStream, on the stream object every stream.start() reuses
\* variant: a listener is added with every stream.start()
tweetListeners_PerStart == Len(transports)

tweetListeners == IF pc = "constructed" THEN 0 ELSE 1

\* variant: the listener calls filter outside try / catch
tweetHandler_NoCatch(p, tw, sig, i) ==
    LET e == Len(p.events) + 1
        arrived == [NewEvent(tw) EXCEPT !.seq = sig, !.via = i,
                                        !.knownAtArrival = tw.user \in p.db.all_users]
    IN  filter([p EXCEPT !.events = Append(@, arrived)], e)

\* the listener of 'tweet':
\* try { self.filter(tweetActivity) } catch (err) { log }
tweetHandler(p, tw, sig, i) ==
    LET e == Len(p.events) + 1
        arrived == [NewEvent(tw) EXCEPT !.seq = sig, !.via = i,
                                        !.knownAtArrival = tw.user \in p.db.all_users]
        q == filter([p EXCEPT !.events = Append(@, arrived)], e)
    IN  IF q.threw
        THEN [q EXCEPT !.events[e].caught = TRUE, !.threw = FALSE]
        ELSE q

\* emit('tweet', tweetActivity): the listeners run one after the other; an
\* exception that leaves a listener ends the emit
RECURSIVE emitTweet(_, _, _, _, _)
emitTweet(p, tw, sig, i, n) ==
    IF n = 0 \/ p.threw THEN p
    ELSE emitTweet(tweetHandler(p, tw, sig, i), tw, sig, i, n - 1)

\* the number of the next 'tweet' signal of the stream
NextSignal == IF events = << >> THEN 1 ELSE events[Len(events)].seq + 1

\* transport i delivers a tweet and the stream emits 'tweet'
onTweet(tw) ==
    \E i \in 1..Len(transports) :
        LET p == emitTweet(Pipe, tw, NextSignal, i, tweetListeners)
        IN  /\ pc = "running"
            /\ transports[i].st = "ready"
            /\ Len(events) < MaxEvents
            /\ events' = p.events
            /\ ops' = p.ops
            /\ UNCHANGED <<send_enabled, maxReconnectTimeout, db>>
            /\ UNCHANGED <<connVars, connHist>>

StreamTweet == \E tw \in Tweets : onTweet(tw)

\* the callback dbQuery gives to pg.connect
pgConnectCallback(op, err) ==
    /\ op \in ops
    /\ op.stage = "connect"
    /\ IF err
       THEN /\ ops' = ops \ {op}
            /\ events' = [events EXCEPT ![op.ev].outcome[op.kind] = "err",
                                        ![op.ev].released[op.kind] = @ + 1]
       ELSE /\ ops' = (ops \ {op}) \cup {[op EXCEPT !.stage = "query"]}
            /\ UNCHANGED events
    /\ UNCHANGED <<send_enabled, maxReconnectTimeout, db>>
    /\ UNCHANGED <<connVars, connHist>>

PgConnected == \E op \in ops : \E err \in BOOLEAN : pgConnectCallback(op, err)

\* done(): the client goes back to the pool
done(p, op) == [p EXCEPT !.events[op.ev].released[op.kind] = @ + 1]

\* variant: the success callback is called outside try / catch
trySuccess_NoCatch(p, op, rows) ==
    querySuccess(
        [p EXCEPT !.events[op.ev].succeeded[op.kind] = @ + 1,
                  !.events[op.ev].early =
                      @ + (IF p.events[op.ev].released[op.kind] = 0 THEN 1 ELSE 0)],
        op, rows)

\* if (success) { try { success(result) } catch (error) { log } }
trySuccess(p, op, rows) ==
    LET q == querySuccess(
                [p EXCEPT !.events[op.ev].succeeded[op.kind] = @ + 1,
                          !.events[op.ev].early =
                              @ + (IF p.events[op.ev].released[op.kind] = 0
                                   THEN 1 ELSE 0)],
                op, rows)
    IN  IF q.threw
        THEN [q EXCEPT !.events[op.ev].cbErrors = @ + 1, !.threw = FALSE]
        ELSE q

\* the callback dbQuery gives to client.query; the statement has run when
\* err is not set.  An exception that leaves this callback is uncaught and
\* ends the process.
pgQueryCallback(op, err, reg, twitThrows) ==
    /\ op \in ops
    /\ op.stage = "query"
    /\ IF err
       THEN /\ ops' = ops \ {op}
            /\ events' = [events EXCEPT ![op.ev].outcome[op.kind] = "err",
                                        ![op.ev].released[op.kind] = @ + 1]
            /\ UNCHANGED <<db, pc>>
       ELSE LET user == events[op.ev].user
                rows == DbRows(db, op.kind, user)
                p == trySuccess(
                        done([Pipe EXCEPT !.ops = @ \ {op},
                                          !.twitThrows = twitThrows,
                                          !.events[op.ev].outcome[op.kind] =
                                              QueryOutcome(op.kind, rows)],
                             op),
                        op, rows)
            IN  /\ db' = DbExec(db, op.kind, user, reg)
                /\ ops' = p.ops
                /\ events' = p.events
                /\ pc' = IF p.threw THEN "crashed" ELSE pc
    /\ UNCHANGED <<send_enabled, maxReconnectTimeout>>
    /\ UNCHANGED <<transports, req, idleArmed, streamReconnectTimeout,
                   reconnectTimeoutHandle, timers>>
    /\ UNCHANGED connHist

\* twit.updateStatus is reached from the callback of a reply check that
\* found no row, with send_enabled
ReachesTwit(op) ==
    /\ op.kind = QIfNewReply
    /\ send_enabled
    /\ DbRows(db, op.kind, events[op.ev].user) = 0

PgQueried ==
    \E op \in ops : \E err \in BOOLEAN :
        \E reg \in (IF ~err /\ WritesUser(op.kind) THEN BOOLEAN ELSE {FALSE}) :
            \E twitThrows \in (IF ~err /\ ReachesTwit(op) THEN BOOLEAN ELSE {FALSE}) :
                pgQueryCallback(op, err, reg, twitThrows)

\* variant: the callback runs whether or not the tweet was sent
updateStatusCallback_CallbackOnErr(op, err) ==
    /\ op \in ops
    /\ op.stage = "send"
    /\ LET p == [Pipe EXCEPT !.ops = @ \ {op}]
           q == IF err
                THEN runCallback(
                        [p EXCEPT !.events[op.ev].outcome[TUpdateStatus] = "err",
                                  !.events[op.ev].tweetFailed = @ + 1],
                        op.ev, op.cb)
                ELSE runCallback(
                        [p EXCEPT !.events[op.ev].outcome[TUpdateStatus] = "ok",
                                  !.events[op.ev].dispatched = @ + 1],
                        op.ev, op.cb)
       IN  /\ ops' = q.ops
           /\ events' = q.events
    /\ UNCHANGED <<send_enabled, maxReconnectTimeout, db>>
    /\ UNCHANGED <<connVars, connHist>>

\* the callback sendReplyTweet gives to twit.updateStatus
updateStatusCallback(op, err) ==
    /\ op \in ops
    /\ op.stage = "send"
    /\ LET p == [Pipe EXCEPT !.ops = @ \ {op}]
           q == IF err
                THEN [p EXCEPT !.events[op.ev].outcome[TUpdateStatus] = "err",
                               !.events[op.ev].tweetFailed = @ + 1]
                ELSE runCallback(
                        [p EXCEPT !.events[op.ev].outcome[TUpdateStatus] = "ok",
                                  !.events[op.ev].dispatched = @ + 1],
                        op.ev, op.cb)
       IN  /\ ops' = q.ops
           /\ events' = q.events
    /\ UNCHANGED <<send_enabled, maxReconnectTimeout, db>>
    /\ UNCHANGED <<connVars, connHist>>

TwitReplied == \E op \in ops : \E err \in BOOLEAN : updateStatusCallback(op, err)

NextPipe ==
    \/ StreamTweet
    \/ PgConnected
    \/ PgQueried
    \/ TwitReplied

\* a stream that is up: connectStream ran, the rules were pushed, the stream
\* was started and signalled 'ready'
InitStreaming ==
    /\ pc = "running"
    /\ transports = <<[st |-> "ready", resp |-> TRUE, emitted |-> {}]>>
    /\ req = 1
    /\ idleArmed = {1}
    /\ streamReconnectTimeout = FloorTimeout
    /\ reconnectTimeoutHandle = 0
    /\ timers = {}
    /\ attempts = 0
    /\ bursts = 0
    /\ reconnects = 0
    /\ rulesUpdates = 1
    /\ rulesResult = "ok"
    /\ pendingDisruption = FALSE
    /\ maxReconnectTimeout = ShippedMaxReconnectTimeout
    /\ InitPipeVars

\* The pipeline of the tweets a streaming connection delivers.  The pipeline
\* variables are written by the pipeline actions only, and the one thing
\* these read from the connection is the guard of onTweet (a transport is
\* streaming), so the connection is held in its streaming state here.
SpecPipe == InitStreaming /\ [][NextPipe]_vars

\* The connection manager together with the 'tweet' listener: tweets arrive
\* between the reconnects; the calls filter issues stay pending.  What the
\* listener does with a tweet is one of three things, and one tweet of each
\* kind is delivered here: filter throws (Confirmed without coordinates),
\* filter issues calls (Invite), filter matches nothing (Unmatched).
StreamSamples ==
    {tw \in Tweets : /\ ~tw.hasGeo
                     /\ tw.tags \in {{TagGeo, TagAddressed}, {TagLocation}, {NoTag}}}

SampleTweet == \E tw \in StreamSamples : onTweet(tw)

NextStream == NextConn \/ SampleTweet

SpecStream == Init /\ [][NextStream]_vars

Next == NextConn \/ NextPipe

\* the whole program
Spec == Init /\ [][Next]_vars

(***************************************************************************)
(* The connection manager with timers that eventually fire.                *)
(***************************************************************************)
SpecConnFair == SpecConn /\ WF_vars(TimerFires)

(***************************************************************************)
(* Properties of the connection manager.                                   *)
(***************************************************************************)
RECURSIVE Pow(_, _)
Pow(b, n) == IF n = 0 THEN 1 ELSE b * Pow(b, n - 1)

FloorDelay == FloorTimeout * MsPerUnit

C5_OneTimerOneAttempt ==
    /\ Cardinality(timers) <= 1
    /\ bursts = reconnects + Cardinality(timers)

C5_Witness ==
    /\ Len(transports) = 2
    /\ transports[1].emitted = {"error", "end"}
    /\ transports[2].emitted = {}
    /\ idleArmed = {1}
    /\ timers = {}
    /\ bursts = 1
    /\ reconnects = 1

C7_OneLiveSession ==
    /\ Cardinality(LiveTransports) <= 1
    /\ \A i \in 1..Len(transports) : i # req => ~Live(transports[i])

C7_Witness ==
    /\ Len(transports) >= 2
    /\ transports[1].resp
    /\ transports[1].emitted = {}
    /\ transports[1].st = "destroyed"
    /\ Live(transports[2])

\* C8: once the stream was started, every disruption (idle timeout, 'error',
\* 'end') is eventually followed by a new stream.start, given that queued
\* timers eventually fire.
C8_DisruptionLeadsToStart ==
    \A k \in 1..MaxStarts :
        (pendingDisruption /\ Len(transports) = k) ~> (Len(transports) > k)

C8_Witness ==
    /\ reconnects >= 1
    /\ ~pendingDisruption
    /\ transports[1].resp
    /\ transports[1].emitted = {}
    /\ 1 \notin idleArmed

\* C9: the stream is started only after rules.update succeeded; a failed
\* rules.update is fatal and the stream is never started; reconnects do not
\* push the rules again.
C9_RulesBeforeStream ==
    /\ Len(transports) > 0 => rulesResult = "ok"
    /\ rulesResult = "err" => pc = "crashed" /\ Len(transports) = 0
    /\ rulesUpdates <= 1
    /\ reconnects > 0 => rulesUpdates = 1

C9_Witness ==
    /\ reconnects >= 2
    /\ rulesUpdates = 1
    /\ rulesResult = "ok"
    /\ transports[Len(transports)].st = "ready"

(***************************************************************************)
(* Properties of the tweet pipeline.                                       *)
(***************************************************************************)
Handled == 1..Len(events)

\* the priority table of the classifier, row by row
RowVerdict == <<"Confirmed", "AskForGeo", "Unconfirmed", "Invite", "Unmatched">>

RowHolds(i, c) ==
    CASE i = 1 -> c.geoInBoundingBox /\ c.addressed
      [] i = 2 -> ~c.geoInBoundingBox /\ ~c.hasGeo /\ c.addressed /\ c.locationMatch
      [] i = 3 -> c.geoInBoundingBox /\ ~c.addressed
      [] i = 4 -> ~c.geoInBoundingBox /\ ~c.hasGeo /\ ~c.addressed /\ c.locationMatch
      [] i = 5 -> TRUE

FirstRow(c) ==
    CHOOSE i \in 1..5 : RowHolds(i, c) /\ \A j \in 1..(i - 1) : ~RowHolds(j, c)

\* C1: for every combination of the four facts filter takes exactly one of
\* the five branches, the first row of the priority table that is satisfied.
C1_FirstRowWins ==
    \A e \in Handled :
        /\ Cardinality({i \in 1..5 : RowVerdict[i] = events[e].verdict}) = 1
        /\ events[e].verdict = RowVerdict[FirstRow(events[e].cat)]

C1_Witness ==
    /\ Len(events) = 2
    /\ events[1].verdict = "Unconfirmed"
    /\ events[1].cat.locationMatch
    /\ events[2].verdict = "Invite"

\* the reply of event e was confirmed sent, or treated so in test mode
Dispatched(e) ==
    IF send_enabled
    THEN events[e].outcome[TUpdateStatus] = "ok"
    ELSE events[e].dispatched > 0 /\ events[e].issued[TUpdateStatus] = 0

\* C2: an invitee insert is issued for an event only once the reply of that
\* event was confirmed sent (or treated so in test mode), and no invitee row
\* exists without such a reply.
C2_InviteeAfterDispatch ==
    /\ \A e \in Handled :
          events[e].issued[QInvitee] > 0 =>
              /\ events[e].verdict \in {"Unconfirmed", "Invite"}
              /\ Dispatched(e)
              /\ events[e].issued[QInvitee] <= events[e].dispatched
    /\ \A u \in Authors :
          db.invitees[u] > 0 => \E e \in Handled : events[e].user = u /\ Dispatched(e)

C2_Witness ==
    /\ send_enabled
    /\ \E e \in Handled :
          /\ events[e].verdict = "Unconfirmed"
          /\ events[e].outcome[TUpdateStatus] = "ok"
          /\ events[e].outcome[QInvitee] = "ok"
          /\ db.invitees[events[e].user] = 1

\* C3: for an Invite event of an author the check found to be new, a reply
\* that was sent is followed by exactly one invitee insert; a reply that
\* failed is followed by none, is logged, and is not sent again.
C3_InviteSendOutcome ==
    \A e \in Handled :
        events[e].verdict = "Invite" =>
            /\ events[e].issued[TUpdateStatus] <= 1
            /\ (events[e].outcome[QIfNewReply] = "new" /\ send_enabled)
                  => events[e].issued[TUpdateStatus] = 1
            /\ events[e].outcome[TUpdateStatus] = "ok"
                  => events[e].issued[QInvitee] = 1
            /\ events[e].outcome[TUpdateStatus] = "err"
                  => events[e].issued[QInvitee] = 0 /\ events[e].tweetFailed = 1

C3_Witness ==
    /\ Len(events) = 2
    /\ events[1].verdict = "Invite"
    /\ events[1].outcome[TUpdateStatus] = "ok"
    /\ events[1].issued[QInvitee] = 1
    /\ events[2].verdict = "Invite"
    /\ events[2].outcome[TUpdateStatus] = "err"
    /\ events[2].tweetFailed = 1
    /\ \A op \in ops : op.ev # 2

\* C10: a Confirmed event issues exactly one confirmed report insert, issues
\* the user upsert exactly once if that insert succeeded and not at all
\* otherwise, and sends no reply.
C10_ConfirmedPipeline ==
    \A e \in Handled :
        events[e].verdict = "Confirmed" =>
            /\ events[e].issued[QConfirmed] = 1
            /\ events[e].issued[QUpsert] =
                  (IF events[e].outcome[QConfirmed] = "ok" THEN 1 ELSE 0)
            /\ events[e].issued[QIfNewReply] = 0
            /\ events[e].issued[TUpdateStatus] = 0
            /\ events[e].dispatched = 0

\* C11: when the new-user check of an event finds the author in all_users,
\* or the SELECT itself fails, what depends on that check is not run: after
\* the check of sendReplyTweet no reply is sent and no invitee insert is
\* issued, after the check of insertNonSpatial no nonspatial user insert is
\* issued; nothing is thrown.
C11_KnownUserSkipped ==
    \A e \in Handled :
        /\ events[e].outcome[QIfNewReply] \in {"known", "err"} =>
              /\ events[e].issued[TUpdateStatus] = 0
              /\ events[e].dispatched = 0
              /\ events[e].callbacks = 0
              /\ events[e].issued[QInvitee] = 0
              /\ ~events[e].caught
        /\ events[e].outcome[QIfNewNonSpatial] \in {"known", "err"} =>
              events[e].issued[QNonSpatialUser] = 0

C11_Witness ==
    /\ Len(events) = 2
    /\ events[1].verdict = "AskForGeo"
    /\ events[1].outcome[QIfNewNonSpatial] = "known"
    /\ events[1].outcome[QIfNewReply] = "known"
    /\ events[2].verdict = "Invite"
    /\ events[2].outcome[QIfNewReply] = "err"
    /\ ops = {}

\* C12 as stated: in every interleaving of the pipelines, a row is added to
\* invitees or nonspatial_users only for an author who is not in all_users
\* at the moment of the insert.
C12_NoInsertOfKnownUser ==
    [][\A u \in Authors :
          (\/ db'.invitees[u] > db.invitees[u]
           \/ db'.nonspatial_users[u] > db.nonspatial_users[u])
              => u \notin db.all_users]_vars

\* C12: an insert into invitees or nonspatial_users is issued for an event
\* only after the new-user check of that same event found the author absent
\* from all_users, at most once per event and table; the check and the
\* insert are separate statements, so the author may have been added in
\* between by another pipeline.
C12_InsertOnlyAfterNewCheck ==
    \A e \in Handled :
        /\ events[e].issued[QInvitee] <= 1
        /\ events[e].issued[QNonSpatialUser] <= 1
        /\ events[e].issued[QInvitee] > 0 => events[e].outcome[QIfNewReply] = "new"
        /\ events[e].issued[QNonSpatialUser] > 0 =>
              events[e].outcome[QIfNewNonSpatial] = "new"

\* two events of one new author: both checks saw no row, both inserts ran
C12_Witness ==
    /\ Len(events) = 2
    /\ events[1].user = events[2].user
    /\ events[1].outcome[QIfNewReply] = "new"
    /\ events[2].outcome[QIfNewNonSpatial] = "new"
    /\ events[1].outcome[QInvitee] = "ok"
    /\ events[2].outcome[QNonSpatialUser] = "ok"
    /\ events[1].user \in db.all_users
    /\ db.invitees[events[1].user] = 1
    /\ db.nonspatial_users[events[1].user] = 1

\* filter left its branch of event e by an exception: the branch was taken
\* and none of its calls was issued
Raised(e) ==
    /\ events[e].verdict \notin {"none", "Unmatched"}
    /\ \A k \in Kinds : events[e].issued[k] = 0

C14_ExactlyOnceInOrder ==
    \A e \in Handled : events[e].seq = e

C14_Witness ==
    /\ Len(events) = 2
    /\ events[1].via = 1
    /\ events[2].via = 3
    /\ events[2].seq = 2
    /\ reconnects = 2

\* C15: the delay of every reconnect timer is at most the configured
\* gnip.maxReconnectTimeout: the backoff stops growing at that value.
C15_DelayCapped ==
    \A tm \in timers : tm.delay <= maxReconnectTimeout

\* C16: with send_enabled not true, twit.updateStatus is never called; for
\* an author the check found to be new, sendReplyTweet still calls the
\* callback it was given exactly once, so that the invitee insert of an
\* Unconfirmed or Invite event is issued as after a reply that was sent.
C16_TestModeReply ==
    ~send_enabled =>
        \A e \in Handled :
            /\ events[e].issued[TUpdateStatus] = 0
            /\ events[e].callbacks <= 1
            /\ (/\ events[e].outcome[QIfNewReply] = "new"
                /\ events[e].verdict \in {"Unconfirmed", "Invite"})
                  => /\ events[e].dispatched = 1
                     /\ events[e].callbacks = 1
                     /\ events[e].issued[QInvitee] = 1

C16_Witness ==
    /\ ~send_enabled
    /\ Len(events) = 2
    /\ events[1].verdict = "Unconfirmed"
    /\ events[1].outcome[QIfNewReply] = "new"
    /\ events[1].outcome[QInvitee] = "ok"
    /\ events[2].verdict = "AskForGeo"
    /\ events[2].outcome[QIfNewReply] = "new"
    /\ events[2].callbacks = 0
    /\ db.invitees[events[1].user] = 1

\* the new-user checks of event e
Checks == {QIfNewNonSpatial, QIfNewReply}

\* this step is the SELECT of check k of event e returning
CheckReturns(e, k) ==
    /\ e \in Handled
    /\ events[e].outcome[k] = "none"
    /\ events'[e].outcome[k] \in {"new", "known"}

\* the calls of event e that are issued, one count per kind
CallsIssued(ev, e) == [k \in Kinds |-> ev[e].issued[k]]

\* C17: a new-user check changes no table, so checks that follow each other
\* with no insert in between report the same; it reports "new" exactly when
\* the author is not in all_users at that moment; all_users never loses an
\* author, so once the author is there every later check reports "not new",
\* and such a check runs nothing: no call is issued and no reply dispatched.
C17_CheckIdempotent ==
    [][/\ db.all_users \subseteq db'.all_users
       /\ \A e \in Handled : \A k \in Checks :
             CheckReturns(e, k) =>
                /\ db' = db
                /\ events'[e].outcome[k] =
                      (IF events[e].user \in db.all_users THEN "known" ELSE "new")
                /\ events'[e].outcome[k] = "known" =>
                      /\ CallsIssued(events', e) = CallsIssued(events, e)
                      /\ events'[e].dispatched = events[e].dispatched
                      /\ events'[e].callbacks = events[e].callbacks
                      /\ ops' \subseteq ops]_vars

C17_Witness ==
    /\ Len(events) = 2
    /\ ~events[1].knownAtArrival
    /\ events[1].outcome[QIfNewNonSpatial] = "new"
    /\ events[1].outcome[QIfNewReply] = "new"
    /\ events[1].outcome[QNonSpatialUser] = "ok"
    /\ events[1].user \in db.all_users
    /\ events[2].user = events[1].user
    /\ events[2].outcome[QIfNewReply] = "known"
    /\ events[2].issued[TUpdateStatus] = 0
    /\ events[2].dispatched = 0

\* C18: an Unmatched event issues no query and no reply, at arrival or
\* later, and throws nothing; the step that handles it leaves the tables
\* and the pending calls as they were.
C18_UnmatchedNoEffect ==
    [][/\ \A e \in 1..Len(events') :
             events'[e].verdict = "Unmatched" =>
                /\ \A k \in Kinds : /\ events'[e].issued[k] = 0
                                     /\ events'[e].outcome[k] = "none"
                /\ events'[e].dispatched = 0
                /\ events'[e].callbacks = 0
                /\ ~events'[e].caught
                /\ \A op \in ops' : op.ev # e
       /\ (/\ Len(events') = Len(events) + 1
           /\ events'[Len(events')].verdict = "Unmatched")
             => db' = db /\ ops' = ops]_vars

C18_Witness ==
    /\ Len(events) = 2
    /\ events[1].verdict = "Unmatched"
    /\ events[1].cat.hasGeo
    /\ events[1].cat.locationMatch
    /\ events[2].verdict = "Invite"
    /\ events[2].outcome[QInvitee] = "ok"
    /\ \A k \in Kinds : events[1].issued[k] = 0
    /\ ops = {}

\* the report insert k of event e failed: the connect or the query
\* reported an error, or building the statement threw before dbQuery
ReportFailed(e, k) ==
    \/ events[e].outcome[k] = "err"
    \/ events[e].issued[k] = 0 /\ events[e].caught

\* C19: a failed report insert stops no sibling step: after a failed
\* unconfirmed report insert the invite reply of an Unconfirmed event is
\* still attempted; after a failed nonspatial report insert an AskForGeo
\* event still runs the new-user check around the nonspatial user insert,
\* the insert itself if the author is new, and the reply.
C19_SiblingsNotAborted ==
    \A e \in Handled :
        /\ (events[e].verdict = "Unconfirmed" /\ ReportFailed(e, QUnConfirmed))
              => events[e].issued[QIfNewReply] = 1
        /\ (events[e].verdict = "AskForGeo" /\ ReportFailed(e, QNonSpatial))
              => /\ events[e].issued[QIfNewNonSpatial] = 1
                 /\ events[e].issued[QIfNewReply] = 1
                 /\ events[e].outcome[QIfNewNonSpatial] = "new"
                       => events[e].issued[QNonSpatialUser] = 1

\* event e is the only event of its author handled so far
OnlyEventOfAuthor(e) ==
    \A f \in Handled : f # e => events[f].user # events[e].user

\* C20: for an AskForGeo event of an author who was not in all_users when
\* the tweet arrived, the reply does not depend on the nonspatial inserts
\* of that event: whatever their outcome and order, once the check of
\* sendReplyTweet has returned, the reply has been sent (or, in test mode,
\* logged as sent).
C20_ReplyNotSuppressed ==
    \A e \in Handled :
        (/\ events[e].verdict = "AskForGeo"
         /\ ~events[e].knownAtArrival
         /\ OnlyEventOfAuthor(e)
         /\ events[e].outcome[QIfNewReply] \in {"new", "known"})
            => /\ events[e].outcome[QIfNewReply] = "new"
               /\ IF send_enabled
                  THEN events[e].issued[TUpdateStatus] = 1
                  ELSE events[e].dispatched = 1

\* C21: a confirmed or unconfirmed report insert is issued only for an
\* event that has coordinates; an event that takes the Confirmed or the
\* Unconfirmed branch without coordinates issues neither insert, and the
\* exception is logged by the catch of the 'tweet' listener.
C21_ReportHasGeoPoint ==
    \A e \in Handled :
        /\ (events[e].issued[QConfirmed] > 0 \/ events[e].issued[QUnConfirmed] > 0)
              => events[e].cat.hasGeo
        /\ (events[e].verdict \in {"Confirmed", "Unconfirmed"} /\ ~events[e].cat.hasGeo)
              => /\ events[e].issued[QConfirmed] = 0
                 /\ events[e].issued[QUnConfirmed] = 0
                 /\ events[e].caught
        /\ events[e].caught => ~events[e].cat.hasGeo

C21_Witness ==
    /\ Len(events) = 2
    /\ events[1].verdict = "Unconfirmed"
    /\ ~events[1].cat.hasGeo
    /\ events[1].caught
    /\ events[1].issued[QUnConfirmed] = 0
    /\ events[2].verdict = "Confirmed"
    /\ events[2].cat.hasGeo
    /\ events[2].outcome[QConfirmed] = "ok"

\* the session of stream._req is streaming and has signalled nothing since
\* 'ready': no 'error', no 'end', and its idle timeout has not fired
HealthySession ==
    /\ req \in 1..Len(transports)
    /\ transports[req].st = "ready"
    /\ transports[req].emitted = {}
    /\ req \in idleArmed

\* C22: while the session of stream._req is streaming and has signalled no
\* disruption of its own, no reconnect timer is pending: a timer pending
\* then was queued for an earlier session, and would tear this one down.
C22_NoStaleTimer ==
    HealthySession => timers = {}

\* the dbQuery calls of kind k of event e whose callbacks have not finished
PendingQueries(e, k) == Cardinality({op \in ops : op.ev = e /\ op.kind = k})

\* C23: every dbQuery call that has finished called done() exactly once,
\* whether the connect failed, the query failed or both succeeded, and a
\* pending call has not called it; the success callback ran once if both
\* succeeded and not at all otherwise, and never before done(); an
\* exception thrown by the success callback is logged once by dbQuery and
\* the process keeps running.
C23_ReleaseOncePerQuery ==
    /\ pc = "running"
    /\ \A e \in Handled :
          /\ events[e].early = 0
          /\ events[e].cbErrors =
                (IF events[e].outcome[TUpdateStatus] = "threw" THEN 1 ELSE 0)
          /\ \A k \in Queries :
                /\ events[e].released[k] + PendingQueries(e, k) = events[e].issued[k]
                /\ events[e].succeeded[k] =
                      (IF events[e].outcome[k] \in {"ok", "new", "known"} THEN 1 ELSE 0)
                /\ events[e].succeeded[k] <= events[e].released[k]

C23_Witness ==
    /\ Len(events) = 2
    /\ events[1].outcome[QIfNewReply] = "new"
    /\ events[1].outcome[TUpdateStatus] = "threw"
    /\ events[1].cbErrors = 1
    /\ events[1].released[QIfNewReply] = 1
    /\ events[2].verdict = "Confirmed"
    /\ events[2].outcome[QConfirmed] = "ok"
    /\ events[2].outcome[QUpsert] = "err"
    /\ events[2].released[QUpsert] = 1
    /\ events[2].succeeded[QUpsert] = 0
    /\ ops = {}

====
